---- MODULE Spec2Model ----
(***************************************************************************)
(* Command triggers of PostgreSQL: the registration API and the firing     *)
(* code of src/backend/commands/cmdtrigger.c over the catalog              *)
(* pg_cmdtrigger, its one call site in src/backend/commands/operatorcmds.c *)
(* (ALTER OPERATOR ... OWNER TO), and the per-backend event trigger cache  *)
(* of src/backend/utils/cache/evtcache.c over the catalog pg_event_trigger.*)
(*                                                                         *)
(* The two trigger stores are two generations of the same feature:         *)
(* cmdtrigger.c does not compile against the declarations of               *)
(* include/commands/cmdtrigger.h (lines 35-40), which belong to the later  *)
(* generation, so no build holds both.  The variable "generation" says     *)
(* which of the two the server was built with; it never changes.           *)
(***************************************************************************)
EXTENDS Integers, Sequences, FiniteSets, TLC

VARIABLES
    generation,             \* "cmdtrigger" or "evtcache"
    pg_cmdtrigger,          \* the catalog: a set of rows (read through its indexes only)
    pg_depend,              \* dependency records [objid, refobjid] trigger -> function
    SessionReplicationRole, \* the session_replication_role setting of the backend
    oprowner,               \* owner of the one operator ALTER OPERATOR works on
    cmd,                    \* the CommandContextData of the command just run
    cmdNames,               \* the tag cmd's lists were scanned for and the names of the triggers listed
    fired,                  \* log of procedure invocations of the command just run
    CurrentMemoryContext,   \* the backend's current memory context when the command ended
    lastCall,               \* the operation just run and how it ended
    pg_proc,                \* the OIDs of the functions that exist
    AllocSetContexts,       \* how many "CommandTriggerContext" memory contexts are allocated
    pg_event_trigger,       \* the catalog of the later generation: a set of rows
    EventCommandTriggerCache, \* the backend's cache: the HTAB pointer and what it holds
    syscache_callbacks,     \* how often the invalidation callback is registered
    triggers,               \* the EventCommandTriggers the last lookup returned
    resolved                \* the lists a command keeps from an earlier lookup

cmdvars == <<pg_cmdtrigger, pg_depend, oprowner, cmd, cmdNames, fired,
             CurrentMemoryContext, AllocSetContexts>>
evtvars == <<pg_event_trigger, EventCommandTriggerCache, syscache_callbacks, triggers,
             resolved>>
vars == <<generation, pg_proc, SessionReplicationRole, lastCall, cmdvars, evtvars>>

-----------------------------------------------------------------------------
(* Bounds and input domains                                                *)

\* At most this many rows in a trigger catalog.
MaxTriggers == 2

\* Trigger names are C strings, modelled as sequences of character codes:
\* "a", "ab", "b".
TrigNames == {<<1>>, <<1, 2>>, <<2>>}

InvalidOid == 0
NULL == "NULL"
NIL == <<>>

\* strcmp() on two names, which is how the name indexes order their keys.
RECURSIVE StrCmp(_, _)
StrCmp(a, b) ==
    IF a = <<>> THEN (IF b = <<>> THEN 0 ELSE -1)
    ELSE IF b = <<>> THEN 1
    ELSE IF Head(a) < Head(b) THEN -1
    ELSE IF Head(a) > Head(b) THEN 1
    ELSE StrCmp(Tail(a), Tail(b))

\* Values of ctgtype (cmdtrigger.h).
CMD_TRIGGER_FIRED_BEFORE == "B"
CMD_TRIGGER_FIRED_AFTER == "A"
CMD_TRIGGER_FIRED_INSTEAD == "I"
Timings == {CMD_TRIGGER_FIRED_BEFORE, CMD_TRIGGER_FIRED_AFTER, CMD_TRIGGER_FIRED_INSTEAD}

\* Values of ctgenabled / evtenabled, as tested by the firing filters.
TRIGGER_FIRES_ON_ORIGIN == "O"
TRIGGER_FIRES_ALWAYS == "A"
TRIGGER_FIRES_ON_REPLICA == "R"
TRIGGER_DISABLED == "D"
EnabledStates == {TRIGGER_FIRES_ON_ORIGIN, TRIGGER_FIRES_ALWAYS,
                  TRIGGER_FIRES_ON_REPLICA, TRIGGER_DISABLED}

SESSION_REPLICATION_ROLE_REPLICA == "replica"
ReplicationRoles == {"origin", SESSION_REPLICATION_ROLE_REPLICA, "local"}

\* The functions a statement can name while they exist, with the plain
\* signature (5 arguments) or the one with the trailing internal argument (6).
Procs ==
    { [oid |-> 101, proname |-> "f_void", pronargs |-> 5, prorettype |-> "void", prolang |-> "plpgsql"],
      [oid |-> 102, proname |-> "f_void_c", pronargs |-> 6, prorettype |-> "void", prolang |-> "c"],
      [oid |-> 103, proname |-> "f_bool", pronargs |-> 5, prorettype |-> "bool", prolang |-> "plpgsql"],
      [oid |-> 104, proname |-> "f_void_c5", pronargs |-> 5, prorettype |-> "void", prolang |-> "c"] }
FuncNames == {p.proname : p \in Procs} \cup {"f_missing"}

ProcByOid(oid) == CHOOSE p \in Procs : p.oid = oid

\* LookupFuncName(funcname, nargs, argtypes, noError): InvalidOid when absent.
LookupFuncName(funcname, nargs) ==
    LET found == {p \in Procs : p.oid \in pg_proc /\ p.proname = funcname
                                /\ p.pronargs = nargs}
    IN IF found # {} THEN (CHOOSE p \in found : TRUE).oid ELSE InvalidOid

get_func_rettype(funcoid) == ProcByOid(funcoid).prorettype

-----------------------------------------------------------------------------
(* Registration API (cmdtrigger.c)                                         *)

\* An unused OID for a new row.
NewOid(rows) == CHOOSE o \in 1..(Cardinality(rows) + 1) : \A r \in rows : r.oid # o

\* The row of a name, through the name index; NULL when there is none.
RowsByName(rows, trigname) == {r \in rows : r.ctgname = trigname}

\* A name check that finds every name free.
NameAlwaysFree(rows, trigname) == TRUE

\* check_cmdtrigger_name: TRUE when the name is free.
check_cmdtrigger_name(rows, trigname) == RowsByName(rows, trigname) = {}

\* The return type CreateCmdTrigger accepts for a timing.
ReturnTypeAccepted(rettype, timing) == rettype = "void"

\* The function a CREATE COMMAND TRIGGER statement resolves to.
ResolveTriggerFunction(funcname) ==
    IF LookupFuncName(funcname, 6) # InvalidOid
    THEN LookupFuncName(funcname, 6)
    ELSE LookupFuncName(funcname, 5)

\* A caller that passes every privilege test.
PrivilegesNotChecked(su) == TRUE

\* CheckCmdTriggerPrivileges: TRUE when it returns, FALSE when it raises.
CheckCmdTriggerPrivileges(su) == su

\* How CreateCmdTrigger ends: the first check that raises, else "ok".
CreateCmdTriggerError(rows, stmt, su) ==
    LET funcoid == ResolveTriggerFunction(stmt.funcname) IN
    IF ~CheckCmdTriggerPrivileges(su) THEN "InsufficientPrivilege"
    ELSE IF funcoid = InvalidOid THEN "UndefinedFunction"
    ELSE IF ~check_cmdtrigger_name(rows, stmt.trigname) THEN "DuplicateObject"
    ELSE IF stmt.timing = CMD_TRIGGER_FIRED_AFTER /\ stmt.command = "VACUUM"
         THEN "FeatureNotSupported"
    ELSE IF stmt.timing = CMD_TRIGGER_FIRED_AFTER /\ stmt.command = "CLUSTER"
         THEN "FeatureNotSupported"
    ELSE IF ~ReturnTypeAccepted(get_func_rettype(funcoid), stmt.timing)
         THEN "InvalidObjectDefinition"
    ELSE "ok"

\* Whether CreateCmdTrigger, when it gets past the two tests before them,
\* reports one of its WARNINGs.
CreateCmdTriggerWarns(stmt) ==
    \/ stmt.timing = CMD_TRIGGER_FIRED_AFTER /\ stmt.command = "CREATE INDEX"
    \/ stmt.command = "REINDEX"

\* InsertCmdTriggerTuple without its call of recordDependencyOn.
InsertCmdTriggerTuple_NoDependency(command, trigname, funcoid, ctgtype) ==
    /\ pg_cmdtrigger' = pg_cmdtrigger \cup
            {[oid |-> CHOOSE o \in 1..(Cardinality(pg_cmdtrigger) + 1) :
                            \A r \in pg_cmdtrigger : r.oid # o,
              ctgcommand |-> command, ctgname |-> trigname,
              ctgfoid |-> funcoid, ctgtype |-> ctgtype,
              ctgenabled |-> TRIGGER_FIRES_ON_ORIGIN]}
    /\ pg_depend' = pg_depend

\* InsertCmdTriggerTuple: the new row and its dependency on the function.
InsertCmdTriggerTuple(command, trigname, funcoid, ctgtype) ==
    LET trigoid == NewOid(pg_cmdtrigger) IN
    /\ pg_cmdtrigger' = pg_cmdtrigger \cup
            {[oid |-> trigoid, ctgcommand |-> command, ctgname |-> trigname,
              ctgfoid |-> funcoid, ctgtype |-> ctgtype,
              ctgenabled |-> TRIGGER_FIRES_ON_ORIGIN]}
    /\ pg_depend' = pg_depend \cup {[objid |-> trigoid, refobjid |-> funcoid]}


\* The state no command has touched: the context of a command that ended is gone.
NoContext ==
    [tag |-> NULL, objectId |-> InvalidOid, objectname |-> NULL, schemaname |-> NULL,
     before |-> NIL, after |-> NIL, oldmctx |-> NULL, cmdmctx |-> NULL]
NoNames == [class |-> NULL, before |-> <<>>, after |-> <<>>]

ForgetCommand ==
    /\ cmd' = NoContext
    /\ cmdNames' = NoNames
    /\ fired' = <<>>
    /\ CurrentMemoryContext' = "MessageContext"
    /\ AllocSetContexts' = 0

Returned(op, err, warn) == [op |-> op, err |-> err, warn |-> warn]

\* CreateCmdTrigger with the catalog insertion moved in front of the check
\* of the function's return type.
CreateCmdTrigger_InsertBeforeCheck(stmt, su) ==
    LET err == CreateCmdTriggerError(pg_cmdtrigger, stmt, su)
    IN
    /\ generation = "cmdtrigger"
    /\ Cardinality(pg_cmdtrigger) < MaxTriggers
    /\ IF err \in {"ok", "InvalidObjectDefinition"}
       THEN InsertCmdTriggerTuple(stmt.command, stmt.trigname,
                                  ResolveTriggerFunction(stmt.funcname), stmt.timing)
       ELSE UNCHANGED <<pg_cmdtrigger, pg_depend>>
    /\ lastCall' = Returned("CreateCmdTrigger", err, FALSE)
    /\ ForgetCommand
    /\ UNCHANGED <<generation, pg_proc, SessionReplicationRole, oprowner, evtvars>>

\* CREATE COMMAND TRIGGER.  stmt: [trigname, command, timing, funcname].
CreateCmdTrigger(stmt, su) ==
    LET err == CreateCmdTriggerError(pg_cmdtrigger, stmt, su) IN
    /\ generation = "cmdtrigger"
    /\ err = "ok" => Cardinality(pg_cmdtrigger) < MaxTriggers
    /\ IF err = "ok"
       THEN InsertCmdTriggerTuple(stmt.command, stmt.trigname,
                                  ResolveTriggerFunction(stmt.funcname), stmt.timing)
       ELSE UNCHANGED <<pg_cmdtrigger, pg_depend>>
    /\ lastCall' = Returned("CreateCmdTrigger", err,
                            err \in {"ok", "InvalidObjectDefinition"}
                            /\ CreateCmdTriggerWarns(stmt))
    /\ ForgetCommand
    /\ UNCHANGED <<generation, pg_proc, SessionReplicationRole, oprowner, evtvars>>

\* get_cmdtrigger_oid: the OID of the named trigger, InvalidOid when missing
\* (an error unless missing_ok, which the caller reads off the row set).
get_cmdtrigger_oid(rows, trigname) ==
    IF RowsByName(rows, trigname) = {} THEN InvalidOid
    ELSE (CHOOSE r \in RowsByName(rows, trigname) : TRUE).oid

\* RemoveCmdTriggerById: the catalog without the row of that OID.
RemoveCmdTriggerById(rows, trigOid) == {r \in rows : r.oid # trigOid}

\* DROP COMMAND TRIGGER: resolve the name, then delete the row and, with it,
\* its dependency records.
DropCmdTrigger(trigname, missing_ok, su) ==
    LET trigoid == get_cmdtrigger_oid(pg_cmdtrigger, trigname)
        err == IF ~CheckCmdTriggerPrivileges(su) THEN "InsufficientPrivilege"
               ELSE IF trigoid = InvalidOid /\ ~missing_ok THEN "UndefinedObject"
               ELSE "ok"
    IN
    /\ generation = "cmdtrigger"
    /\ IF err = "ok" /\ trigoid # InvalidOid
       THEN /\ pg_cmdtrigger' = RemoveCmdTriggerById(pg_cmdtrigger, trigoid)
            /\ pg_depend' = {d \in pg_depend : d.objid # trigoid}
       ELSE UNCHANGED <<pg_cmdtrigger, pg_depend>>
    /\ lastCall' = Returned("DropCmdTrigger", err, FALSE)
    /\ ForgetCommand
    /\ UNCHANGED <<generation, pg_proc, SessionReplicationRole, oprowner, evtvars>>

\* The deletion of the objects that depend on a dropped one: each command
\* trigger among them goes through RemoveCmdTriggerById.
RECURSIVE deleteDependentTriggers(_, _)
deleteDependentTriggers(rows, objids) ==
    IF objids = {} THEN rows
    ELSE LET o == CHOOSE x \in objids : TRUE
         IN deleteDependentTriggers(RemoveCmdTriggerById(rows, o), objids \ {o})

\* DROP FUNCTION of the function with that OID, RESTRICT or CASCADE: with
\* RESTRICT it fails while a pg_depend record refers to the function; with
\* CASCADE the objects of those records are deleted with it.
DropFunction(funcoid, cascade) ==
    LET dependents == {d \in pg_depend : d.refobjid = funcoid}
        err == IF dependents # {} /\ ~cascade THEN "DependentObjectsStillExist"
               ELSE "ok"
    IN
    /\ generation = "cmdtrigger"
    /\ funcoid \in pg_proc
    /\ IF err = "ok"
       THEN /\ pg_proc' = pg_proc \ {funcoid}
            /\ pg_cmdtrigger' = deleteDependentTriggers(pg_cmdtrigger,
                                                        {d.objid : d \in dependents})
            /\ pg_depend' = pg_depend \ dependents
       ELSE UNCHANGED <<pg_proc, pg_cmdtrigger, pg_depend>>
    /\ lastCall' = Returned("DropFunction", err, FALSE)
    /\ ForgetCommand
    /\ UNCHANGED <<generation, SessionReplicationRole, oprowner, evtvars>>

\* AlterCmdTrigger writing the new state to every row of the catalog.
AlterCmdTrigger_EveryRow(trigname, tgenabled, su) ==
    LET found == {r \in pg_cmdtrigger : r.ctgname = trigname}
        err == IF ~su THEN "InsufficientPrivilege"
               ELSE IF found = {} THEN "UndefinedObject"
               ELSE "ok"
    IN
    /\ generation = "cmdtrigger"
    /\ IF err = "ok"
       THEN pg_cmdtrigger' = {[r EXCEPT !.ctgenabled = tgenabled] : r \in pg_cmdtrigger}
       ELSE UNCHANGED pg_cmdtrigger
    /\ lastCall' = Returned("AlterCmdTrigger", err, FALSE)
    /\ ForgetCommand
    /\ UNCHANGED <<generation, pg_proc, SessionReplicationRole, oprowner, pg_depend, evtvars>>

\* ALTER TRIGGER ... ON COMMAND ... ENABLE|DISABLE|ENABLE ALWAYS|REPLICA.
AlterCmdTrigger(trigname, tgenabled, su) ==
    LET found == RowsByName(pg_cmdtrigger, trigname)
        err == IF ~CheckCmdTriggerPrivileges(su) THEN "InsufficientPrivilege"
               ELSE IF found = {} THEN "UndefinedObject"
               ELSE "ok"
        tup == CHOOSE r \in found : TRUE
    IN
    /\ generation = "cmdtrigger"
    /\ IF err = "ok"
       THEN pg_cmdtrigger' = (pg_cmdtrigger \ {tup}) \cup {[tup EXCEPT !.ctgenabled = tgenabled]}
       ELSE UNCHANGED pg_cmdtrigger
    /\ lastCall' = Returned("AlterCmdTrigger", err, FALSE)
    /\ ForgetCommand
    /\ UNCHANGED <<generation, pg_proc, SessionReplicationRole, oprowner, pg_depend, evtvars>>

\* ALTER TRIGGER ... ON COMMAND ... RENAME TO.
RenameCmdTrigger(trigname, newname, su) ==
    LET found == RowsByName(pg_cmdtrigger, trigname)
        err == IF ~CheckCmdTriggerPrivileges(su) THEN "InsufficientPrivilege"
               ELSE IF ~check_cmdtrigger_name(pg_cmdtrigger, newname) THEN "DuplicateObject"
               ELSE IF found = {} THEN "UndefinedObject"
               ELSE "ok"
        tup == CHOOSE r \in found : TRUE
    IN
    /\ generation = "cmdtrigger"
    /\ IF err = "ok"
       THEN pg_cmdtrigger' = (pg_cmdtrigger \ {tup}) \cup {[tup EXCEPT !.ctgname = newname]}
       ELSE UNCHANGED pg_cmdtrigger
    /\ lastCall' = Returned("RenameCmdTrigger", err, FALSE)
    /\ ForgetCommand
    /\ UNCHANGED <<generation, pg_proc, SessionReplicationRole, oprowner, pg_depend, evtvars>>

\* SET session_replication_role, in a backend of either generation.  The
\* assignment reaches neither a catalog nor the event trigger cache.
SetSessionReplicationRole(role) ==
    /\ role # SessionReplicationRole
    /\ SessionReplicationRole' = role
    /\ lastCall' = Returned("SetSessionReplicationRole", "ok", FALSE)
    /\ ForgetCommand
    /\ UNCHANGED <<generation, pg_proc, pg_cmdtrigger, pg_depend, oprowner, evtvars>>

-----------------------------------------------------------------------------
(* Firing (cmdtrigger.c) and its call site (operatorcmds.c)                *)

\* The replication-role filter of ListCommandTriggers and of
\* BuildEventTriggerCache: TRUE when a row with this enabled state is kept.
FiresUnderRole(enabled, role) ==
    IF enabled = TRIGGER_DISABLED THEN FALSE
    ELSE IF role = SESSION_REPLICATION_ROLE_REPLICA
         THEN enabled # TRIGGER_FIRES_ON_ORIGIN
    ELSE enabled # TRIGGER_FIRES_ON_REPLICA

\* A scan in the order of the rows' OIDs instead of their names.
RECURSIVE CommandOidIndexScan(_)
CommandOidIndexScan(rows) ==
    IF rows = {} THEN <<>>
    ELSE LET first == CHOOSE r \in rows : \A q \in rows : r.oid <= q.oid
         IN <<first>> \o CommandOidIndexScan(rows \ {first})

\* systable_getnext_ordered over the (ctgcommand, ctgname) index with the
\* command as key: the rows of that command, by ascending name.
RECURSIVE CommandNameIndexScan(_)
CommandNameIndexScan(rows) ==
    IF rows = {} THEN <<>>
    ELSE LET first == CHOOSE r \in rows :
                          \A q \in rows : StrCmp(r.ctgname, q.ctgname) <= 0
         IN <<first>> \o CommandNameIndexScan(rows \ {first})

\* lappend_oid.
lappend_oid(list, datum) == Append(list, datum)

\* The loop of ListCommandTriggers over the scanned rows.
RECURSIVE ListLoop(_, _, _)
ListLoop(scan, role, acc) ==
    IF scan = <<>> THEN acc
    ELSE LET form == Head(scan) IN
         IF ~FiresUnderRole(form.ctgenabled, role)
         THEN ListLoop(Tail(scan), role, acc)
         ELSE IF form.ctgtype = CMD_TRIGGER_FIRED_BEFORE
         THEN ListLoop(Tail(scan), role,
                       [acc EXCEPT !.before = lappend_oid(@, form.ctgfoid),
                                   !.beforeNames = Append(@, form.ctgname),
                                   !.count = @ + 1])
         ELSE IF form.ctgtype = CMD_TRIGGER_FIRED_AFTER
         THEN ListLoop(Tail(scan), role,
                       [acc EXCEPT !.after = lappend_oid(@, form.ctgfoid),
                                   !.afterNames = Append(@, form.ctgname),
                                   !.count = @ + 1])
         ELSE ListLoop(Tail(scan), role, [acc EXCEPT !.count = @ + 1])

\* ListCommandTriggers for a command tag: cmd->before, cmd->after and the
\* count it returns (and, beside them, the names of the rows listed).
ListCommandTriggers(rows, tag, role) ==
    ListLoop(CommandNameIndexScan({r \in rows : r.ctgcommand = tag}), role,
             [before |-> NIL, after |-> NIL, count |-> 0,
              beforeNames |-> <<>>, afterNames |-> <<>>])

\* InitCommandContext without the assignment that puts the command's tag
\* back after the lists for "ANY" were scanned.
InitCommandContext_TagNotRestored(rows, role, tag, list_any_triggers) ==
    LET class == IF list_any_triggers THEN "ANY" ELSE tag
        l == ListCommandTriggers(rows, class, role) IN
    [ctx |-> [tag |-> class, objectId |-> InvalidOid, objectname |-> NULL,
              schemaname |-> NULL, before |-> l.before, after |-> l.after,
              oldmctx |-> NULL, cmdmctx |-> NULL],
     names |-> [class |-> class, before |-> l.beforeNames, after |-> l.afterNames]]

\* InitCommandContext(cmd, stmt, list_any_triggers) for a statement of that
\* tag: the context, and with it the tag the lists were scanned for and the
\* names of the rows they list.
InitCommandContext(rows, role, tag, list_any_triggers) ==
    LET class == IF list_any_triggers THEN "ANY" ELSE tag
        l == ListCommandTriggers(rows, class, role) IN
    [ctx |-> [tag |-> tag, objectId |-> InvalidOid, objectname |-> NULL,
              schemaname |-> NULL, before |-> l.before, after |-> l.after,
              oldmctx |-> NULL, cmdmctx |-> NULL],
     names |-> [class |-> class, before |-> l.beforeNames, after |-> l.afterNames]]

\* What FunctionCallInvoke can give back: a datum that reads as true, a datum
\* that reads as false (zero, which is also what a void function returns), a
\* NULL, or an ERROR raised in the procedure.
ProcResults == {"true", "false", "null", "error"}

\* call_cmdtrigger_procedure telling the procedure that every argument has
\* a value.
call_cmdtrigger_procedure_NoNulls(c, trig, proc, when, result, mctx) ==
    [status |-> IF mctx = NULL THEN "crash"
                ELSE IF result = "error" THEN "error" ELSE "ok",
     call |-> [trig |-> trig, proc |-> proc, when |-> when,
               nargs |-> IF ProcByOid(proc).prolang = "c" THEN 6 ELSE 5,
               argnull |-> <<FALSE, FALSE, FALSE, FALSE, FALSE>>,
               ret |-> IF result = "error" THEN "error"
                       ELSE IF result = "false" THEN "false" ELSE "true"]]

\* call_cmdtrigger_procedure returning normally from a procedure that raised
\* an ERROR.
call_cmdtrigger_procedure_CatchesError(c, trig, proc, when, result, mctx) ==
    [status |-> IF mctx = NULL THEN "crash" ELSE "ok",
     call |-> [trig |-> trig, proc |-> proc, when |-> when,
               nargs |-> IF ProcByOid(proc).prolang = "c" THEN 6 ELSE 5,
               argnull |-> <<FALSE, c.tag = NULL, c.objectId = InvalidOid,
                             c.schemaname = NULL, c.objectname = NULL>>,
               ret |-> IF result = "error" THEN "error"
                       ELSE IF result = "false" THEN "false" ELSE "true"]]

\* call_cmdtrigger_procedure: its arguments and what it returns.  Its
\* allocations (pstrdup) need a current memory context.
call_cmdtrigger_procedure(c, trig, proc, when, result, mctx) ==
    LET nargs == IF ProcByOid(proc).prolang = "c" THEN 6 ELSE 5
        argnull == <<FALSE, c.tag = NULL, c.objectId = InvalidOid,
                     c.schemaname = NULL, c.objectname = NULL>>
        status == IF mctx = NULL THEN "crash"
                  ELSE IF result = "error" THEN "error"
                  ELSE "ok"
    IN [status |-> status,
        call |-> [trig |-> trig, proc |-> proc, when |-> when, nargs |-> nargs,
                  argnull |-> argnull,
                  ret |-> IF result = "error" THEN "error"
                          ELSE IF result = "false" THEN "false" ELSE "true"]]

\* exec_command_triggers_internal leaving its loop at the first procedure
\* that returns false.
RECURSIVE exec_command_triggers_UntilFalse(_, _, _, _, _, _, _)
exec_command_triggers_UntilFalse(c, names, procs, when, results, mctx, log) ==
    IF procs = NIL THEN [status |-> "ok", log |-> log]
    ELSE LET r == call_cmdtrigger_procedure(c, Head(names), Head(procs), when,
                                            results[Len(log) + 1], mctx)
         IN IF r.status = "crash" THEN [status |-> "crash", log |-> log]
            ELSE IF r.status = "error"
                 THEN [status |-> "error", log |-> Append(log, r.call)]
            ELSE IF r.call.ret = "false"
                 THEN [status |-> "ok", log |-> Append(log, r.call)]
            ELSE exec_command_triggers_UntilFalse(c, Tail(names), Tail(procs), when,
                                                  results, mctx, Append(log, r.call))

\* exec_command_triggers_internal: the procedures of one list, in list
\* order; results[k] is what the k-th invocation of the command gives back.
RECURSIVE exec_command_triggers_internal(_, _, _, _, _, _, _)
exec_command_triggers_internal(c, names, procs, when, results, mctx, log) ==
    IF procs = NIL THEN [status |-> "ok", log |-> log]
    ELSE LET r == call_cmdtrigger_procedure(c, Head(names), Head(procs), when,
                                            results[Len(log) + 1], mctx)
         IN IF r.status = "crash" THEN [status |-> "crash", log |-> log]
            ELSE IF r.status = "error"
                 THEN [status |-> "error", log |-> Append(log, r.call)]
            ELSE exec_command_triggers_internal(c, Tail(names), Tail(procs), when,
                                                results, mctx, Append(log, r.call))

\* ExecBeforeCommandTriggers(cmd), cmd not NULL: the pass, then the switch
\* to cmd->oldmctx.
ExecBeforeCommandTriggers(c, names, results, mctx, log) ==
    LET r == IF c.before # NIL
             THEN exec_command_triggers_internal(c, names.before, c.before, "BEFORE",
                                                 results, mctx, log)
             ELSE [status |-> "ok", log |-> log]
    IN [status |-> r.status, log |-> r.log,
        mctx |-> IF r.status = "ok" THEN c.oldmctx ELSE mctx]

\* ExecAfterCommandTriggers(cmd), cmd not NULL.
ExecAfterCommandTriggers(c, names, results, mctx, log) ==
    LET r == IF c.after # NIL
             THEN exec_command_triggers_internal(c, names.after, c.after, "AFTER",
                                                 results, mctx, log)
             ELSE [status |-> "ok", log |-> log]
    IN [status |-> r.status, log |-> r.log,
        mctx |-> IF r.status = "ok" THEN c.oldmctx ELSE mctx]

\* CommandFiresTriggers with a "CommandTriggerContext" for every context
\* that is not NULL, whatever its lists hold.
CommandFiresTriggers_AlwaysAllocates(c, mctx, live) ==
    IF c = NoContext
    THEN [fires |-> FALSE, ctx |-> c, mctx |-> mctx, live |-> live]
    ELSE [fires |-> c.before # NIL \/ c.after # NIL,
          ctx |-> [c EXCEPT !.oldmctx = mctx, !.cmdmctx = "CommandTriggerContext"],
          mctx |-> "CommandTriggerContext", live |-> live + 1]

\* CommandFiresTriggers(cmd), NoContext standing for cmd == NULL: what it
\* returns, the context, CurrentMemoryContext and the number of allocated
\* "CommandTriggerContext"s after it.
CommandFiresTriggers(c, mctx, live) ==
    IF c = NoContext
    THEN [fires |-> FALSE, ctx |-> c, mctx |-> mctx, live |-> live]
    ELSE IF c.before # NIL \/ c.after # NIL
    THEN [fires |-> TRUE,
          ctx |-> [c EXCEPT !.oldmctx = mctx, !.cmdmctx = "CommandTriggerContext"],
          mctx |-> "CommandTriggerContext", live |-> live + 1]
    ELSE [fires |-> FALSE, ctx |-> c, mctx |-> mctx, live |-> live]

\* CommandFiresAfterTriggers(cmd): what it returns and CurrentMemoryContext
\* after it.
CommandFiresAfterTriggers(c, mctx) ==
    IF c # NoContext /\ c.after # NIL
    THEN [fires |-> TRUE, mctx |-> c.cmdmctx]
    ELSE [fires |-> FALSE, mctx |-> mctx]

\* The operator ALTER OPERATOR ... OWNER TO works on, and the roles that can own it.
TheOperator == [oid |-> 7, oprname |-> "+", oprnamespace |-> "public"]
Owners == {10, 20}

\* The entry the log gets when the command's own catalog update is done.
OwnerUpdate ==
    [trig |-> <<>>, proc |-> InvalidOid, when |-> "COMMAND", nargs |-> 0,
     argnull |-> <<>>, ret |-> "true"]

\* ALTER OPERATOR ... OWNER TO newOwnerId: the context the caller sets up
\* with InitCommandContext (ctx "own": for the command's tag, "any": for
\* "ANY", "none": a NULL context), then AlterOperatorOwner_internal.
\* aclOk: the ownership and membership checks of a non-superuser pass.
\* An allocation with CurrentMemoryContext NULL ends the backend.
AlterOperatorOwner(ctx, newOwnerId, su, aclOk, results) ==
    LET hasCtx == ctx # "none"
        change == oprowner # newOwnerId
        denied == change /\ ~su /\ ~aclOk
    IN
    \E init \in {InitCommandContext(pg_cmdtrigger, SessionReplicationRole,
                                    "ALTER OPERATOR", ctx = "any")} :
    \E c0 \in {IF hasCtx THEN init.ctx ELSE NoContext} :
    \E names \in {IF hasCtx THEN init.names ELSE NoNames} :
    \E firesBefore \in {change /\ ~denied /\ hasCtx /\ (c0.before # NIL \/ c0.after # NIL)} :
    \E c1 \in {IF firesBefore
               THEN [c0 EXCEPT !.objectId = TheOperator.oid,
                               !.objectname = TheOperator.oprname,
                               !.schemaname = TheOperator.oprnamespace]
               ELSE c0} :
    \E b \in {IF firesBefore
              THEN ExecBeforeCommandTriggers(c1, names, results, "MessageContext", <<>>)
              ELSE [status |-> "ok", log |-> <<>>, mctx |-> "MessageContext"]} :
    \E updCrash \in {change /\ ~denied /\ b.status = "ok" /\ b.mctx = NULL} :
    \E updated \in {change /\ ~denied /\ b.status = "ok" /\ ~updCrash} :
    \E a \in {IF ~denied /\ b.status = "ok" /\ ~updCrash /\ hasCtx /\ c1.after # NIL
              THEN ExecAfterCommandTriggers(c1, names, results, b.mctx,
                        IF updated THEN Append(b.log, OwnerUpdate) ELSE b.log)
              ELSE [status |-> "ok",
                    log |-> IF updated THEN Append(b.log, OwnerUpdate) ELSE b.log,
                    mctx |-> b.mctx]} :
    \E err \in {IF denied THEN "NotOwner"
                ELSE IF b.status = "error" \/ a.status = "error" THEN "ProcedureError"
                ELSE IF b.status = "crash" \/ updCrash \/ a.status = "crash" THEN "SIGSEGV"
                ELSE "ok"} :
    /\ generation = "cmdtrigger"
    /\ oprowner' = IF err = "ok" /\ updated THEN newOwnerId ELSE oprowner
    /\ cmd' = c1
    /\ cmdNames' = names
    /\ fired' = a.log
    /\ CurrentMemoryContext' = IF err = "ok" THEN a.mctx ELSE "MessageContext"
    /\ AllocSetContexts' = 0
    /\ SessionReplicationRole' = IF err = "SIGSEGV" THEN "origin" ELSE SessionReplicationRole
    /\ lastCall' = Returned("AlterOperatorOwner", err, FALSE)
    /\ UNCHANGED <<generation, pg_proc, pg_cmdtrigger, pg_depend, evtvars>>

\* How many procedures the context of a command lists: no command invokes more.
ListedProcs(ctx) ==
    IF ctx = "none" THEN 0
    ELSE LET l == ListCommandTriggers(pg_cmdtrigger,
                                      IF ctx = "any" THEN "ANY" ELSE "ALTER OPERATOR",
                                      SessionReplicationRole)
         IN Len(l.before) + Len(l.after)

\* The commands standard_ProcessUtility runs with the triggers of "ANY", and
\* the object such a command works on.
UtilityTags == {"VACUUM"}
UtilityObject == [oid |-> 8, relname |-> "t", nspname |-> "public"]

\* A utility command integrated in the form cmdtrigger.c prescribes:
\* InitCommandContext with the triggers of "ANY" (ctx "any"; "none": a NULL
\* context); if CommandFiresTriggers, the identity of the object and
\* ExecBeforeCommandTriggers; the command itself; if
\* CommandFiresAfterTriggers, ExecAfterCommandTriggers.  An ERROR leaves
\* through every frame; what was allocated stays until MessageContext is
\* reset for the next statement.
ProcessUtility(ctx, tag, results) ==
    \E init \in {InitCommandContext(pg_cmdtrigger, SessionReplicationRole, tag, TRUE)} :
    \E c0 \in {IF ctx = "none" THEN NoContext ELSE init.ctx} :
    \E names \in {IF ctx = "none" THEN NoNames ELSE init.names} :
    \E f \in {CommandFiresTriggers(c0, "MessageContext", 0)} :
    \E c1 \in {IF f.fires
               THEN [f.ctx EXCEPT !.objectId = UtilityObject.oid,
                                  !.objectname = UtilityObject.relname,
                                  !.schemaname = UtilityObject.nspname]
               ELSE f.ctx} :
    \E b \in {IF f.fires
              THEN ExecBeforeCommandTriggers(c1, names, results, f.mctx, <<>>)
              ELSE [status |-> "ok", log |-> <<>>, mctx |-> f.mctx]} :
    \E cmdCrash \in {b.status = "ok" /\ b.mctx = NULL} :
    \E done \in {b.status = "ok" /\ ~cmdCrash} :
    \E fa \in {CommandFiresAfterTriggers(c1, b.mctx)} :
    \E a \in {IF done /\ fa.fires
              THEN ExecAfterCommandTriggers(c1, names, results, fa.mctx,
                                            Append(b.log, OwnerUpdate))
              ELSE [status |-> "ok",
                    log |-> IF done THEN Append(b.log, OwnerUpdate) ELSE b.log,
                    mctx |-> b.mctx]} :
    \E err \in {IF b.status = "error" \/ a.status = "error" THEN "ProcedureError"
                ELSE IF b.status = "crash" \/ cmdCrash \/ a.status = "crash" THEN "SIGSEGV"
                ELSE "ok"} :
    /\ generation = "cmdtrigger"
    /\ cmd' = c1
    /\ cmdNames' = names
    /\ fired' = a.log
    /\ CurrentMemoryContext' = IF err = "ok" THEN a.mctx ELSE "MessageContext"
    /\ AllocSetContexts' = IF err = "SIGSEGV" THEN 0 ELSE f.live
    /\ SessionReplicationRole' = IF err = "SIGSEGV" THEN "origin" ELSE SessionReplicationRole
    /\ lastCall' = Returned("ProcessUtility", err, FALSE)
    /\ UNCHANGED <<generation, pg_proc, pg_cmdtrigger, pg_depend, oprowner, evtvars>>

-----------------------------------------------------------------------------
(* The event trigger cache (utils/cache/evtcache.c)                        *)

\* The command id of "any command"; evtcache.c uses it (lines 174, 262) but
\* its definition is in utils/evtcache.h, which is not part of the sources.
E_ANY == 0

MaxCallbacks == 2

\* evttags is a nullable array: NULL, a one-dimensional smallint array, or
\* an array that fails the test at evtcache.c:185-188.
NullTags == [isnull |-> TRUE, wellformed |-> TRUE, tags |-> <<>>]
TagArray(tags) == [isnull |-> FALSE, wellformed |-> TRUE, tags |-> tags]
MalformedTags == [isnull |-> FALSE, wellformed |-> FALSE, tags |-> <<>>]

\* A key that adds the event to the command without the shift.
KeyWithoutShift(command, event) == <<0, (command + event) % 65536>>

\* ((Oid) (0x0 | (((uint32)command << 16) + (uint32) event))): a 32 bit
\* value, written as its high and its low 16 bits.  The shift drops all but
\* the low 16 bits of command; the sum wraps at 2^32.
EVENT_COMMAND_TRIGGER_KEY(command, event) ==
    <<(command + (event \div 65536)) % 65536, event % 65536>>

\* EventCommandTriggerCache = NULL.  Besides the pointer and the entries of
\* the table the variable records whether the scan that filled the table
\* ran to its end and under which session_replication_role it ran.
NoCache == [null |-> TRUE, entries |-> {}, complete |-> FALSE, role |-> "origin"]

NoTriggers ==
    [event |-> 0, command |-> 0, any_triggers |-> NIL, cmd_triggers |-> NIL,
     any_names |-> <<>>, cmd_names |-> <<>>, built |-> FALSE]

\* A test of evtenabled that never looks at session_replication_role.
EvtFiresUnlessDisabled(evtenabled, role) == evtenabled # TRIGGER_DISABLED

\* The test of evtenabled against session_replication_role.
EvtFiresUnderRole(evtenabled, role) ==
    IF evtenabled = TRIGGER_DISABLED THEN FALSE
    ELSE IF role = SESSION_REPLICATION_ROLE_REPLICA
         THEN evtenabled # TRIGGER_FIRES_ON_ORIGIN
         ELSE evtenabled # TRIGGER_FIRES_ON_REPLICA

\* The values of pg_event_trigger.evttype.
EVTG_FIRED_BEFORE == "B"
EVTG_FIRED_INSTEAD_OF == "I"

\* hash_search(..., HASH_ENTER, &found) and what follows it.  Beside the
\* function list each entry keeps, for the properties below, the name, the
\* evtenabled and the evttype of the row "form" each function was taken
\* from, and the command and event it was added for.
add_funcall_to_command_event(entries, command, event, func, form) ==
    LET key == EVENT_COMMAND_TRIGGER_KEY(command, event)
        found == {h \in entries : h.key = key}
    IN  IF found # {}
        THEN LET hresult == CHOOSE h \in found : TRUE
             IN (entries \ {hresult}) \cup
                {[hresult EXCEPT !.funcs = lappend_oid(@, func),
                                 !.names = Append(@, form.evtname),
                                 !.enabled = Append(@, form.evtenabled),
                                 !.types = Append(@, form.evttype),
                                 !.pairs = Append(@, <<command, event>>)]}
        ELSE entries \cup
             {[key |-> key, command |-> command, event |-> event,
               funcs |-> <<func>>, names |-> <<form.evtname>>,
               enabled |-> <<form.evtenabled>>, types |-> <<form.evttype>>,
               pairs |-> <<<<command, event>>>>]}

\* for (i = 0; i < numkeys; i++) add_funcall_to_command_event(tags[i], ...)
RECURSIVE AddTags(_, _, _, _, _)
AddTags(entries, tags, event, func, form) ==
    IF tags = <<>> THEN entries
    ELSE AddTags(add_funcall_to_command_event(entries, Head(tags), event, func, form),
                 Tail(tags), event, func, form)

\* The full scan of the name index: every row, ascending by evtname.
RECURSIVE EventTriggerNameIndexScan(_)
EventTriggerNameIndexScan(rows) ==
    IF rows = {} THEN <<>>
    ELSE LET first == CHOOSE r \in rows :
                         \A q \in rows : StrCmp(r.evtname, q.evtname) <= 0
         IN <<first>> \o EventTriggerNameIndexScan(rows \ {first})

\* The while loop of BuildEventTriggerCache over the rest of the scan.
RECURSIVE BuildLoop(_, _, _)
BuildLoop(scan, role, entries) ==
    IF scan = <<>> THEN [status |-> "ok", entries |-> entries]
    ELSE LET form == Head(scan)
         IN IF ~EvtFiresUnderRole(form.evtenabled, role)
            THEN BuildLoop(Tail(scan), role, entries)
            ELSE IF form.evttags.isnull
            THEN BuildLoop(Tail(scan), role,
                           add_funcall_to_command_event(entries, E_ANY, form.evtevent,
                                                        form.evtfoid, form))
            ELSE IF ~form.evttags.wellformed
            THEN [status |-> "error", entries |-> entries]
            ELSE BuildLoop(Tail(scan), role,
                           AddTags(entries, form.evttags.tags, form.evtevent,
                                   form.evtfoid, form))

BuildEventTriggerCache(rows, role) ==
    BuildLoop(EventTriggerNameIndexScan(rows), role, {})

\* hash_search(..., HASH_FIND, NULL) and the assignment of hresult->funcs.
HashFind(entries, key, field) ==
    LET found == {h \in entries : h.key = key}
    IN IF found = {} THEN NIL ELSE (CHOOSE h \in found : TRUE)[field]

\* The body of get_event_triggers once the cache pointer is set.
LookupTriggers(entries, event, command, built) ==
    LET anykey == EVENT_COMMAND_TRIGGER_KEY(E_ANY, event)
        cmdkey == EVENT_COMMAND_TRIGGER_KEY(command, event)
    IN [event |-> event, command |-> command,
        any_triggers |-> HashFind(entries, anykey, "funcs"),
        cmd_triggers |-> HashFind(entries, cmdkey, "funcs"),
        any_names |-> HashFind(entries, anykey, "names"),
        cmd_names |-> HashFind(entries, cmdkey, "names"),
        built |-> built]

\* A List pointer as get_event_triggers hands it out: NIL, or the address of
\* the list cells an entry's funcs field points to.  The cells are allocated
\* in CacheMemoryContext (evtcache.c:87): while the table that holds the
\* entry is the current one they are read through the entry ("live"); once
\* the table is destroyed, "cells" is what the memory at the address holds.
NilList == [null |-> TRUE, live |-> FALSE, key |-> <<0, 0>>, cells |-> NIL]

\* triggers->any_triggers = hresult->funcs: the pointer, not a copy.
ListPointer(entries, key) ==
    IF {h \in entries : h.key = key} = {} THEN NilList
    ELSE [null |-> FALSE, live |-> TRUE, key |-> key, cells |-> NIL]

\* foreach(cell, list): what a reader of the pointer finds now.
ListCells(p) ==
    IF p.null THEN NIL
    ELSE IF p.live THEN HashFind(EventCommandTriggerCache.entries, p.key, "funcs")
    ELSE p.cells

\* No command keeps lists.
NoLists ==
    [held |-> FALSE, any_triggers |-> NilList, cmd_triggers |-> NilList,
     any_funcs |-> NIL, cmd_funcs |-> NIL]

\* A hash_destroy that also frees the lists its entries point to; a reader
\* of a kept pointer then finds whatever the allocator left there.
hash_destroy_FreesLists(lists, entries) ==
    [lists EXCEPT
        !.any_triggers = IF @.live THEN [@ EXCEPT !.live = FALSE, !.cells = <<InvalidOid>>]
                         ELSE @,
        !.cmd_triggers = IF @.live THEN [@ EXCEPT !.live = FALSE, !.cells = <<InvalidOid>>]
                         ELSE @]

\* A kept pointer after the table is freed: the cells it points to are in
\* CacheMemoryContext, not in the table, and keep what they hold.
CellsOutliveTable(p, entries) ==
    IF p.live THEN [p EXCEPT !.live = FALSE, !.cells = HashFind(entries, p.key, "funcs")]
    ELSE p

\* hash_destroy(EventCommandTriggerCache), seen from the lists a command
\* keeps.  The table and its entries are freed; an entry is entrysize opaque
\* bytes to the table (evtcache.c:230), so the list cells its funcs field
\* points to stay allocated in CacheMemoryContext with their contents.
hash_destroy(lists, entries) ==
    [lists EXCEPT !.any_triggers = CellsOutliveTable(@, entries),
                  !.cmd_triggers = CellsOutliveTable(@, entries)]

\* A test of the pointer that takes every cache for missing.
CacheTakenForNull(cache) == TRUE

\* if (!EventCommandTriggerCache)
CacheIsNull(cache) == cache.null

\* get_event_triggers(event, command).  When the pointer is NULL the call
\* runs InitializeEvtTriggerCommandCache: hash_create assigns the pointer,
\* BuildEventTriggerCache fills the table, and only then is the callback
\* registered.  heap_open in the build accepts pending invalidation
\* messages; "inval" says one is pending.  If a callback is registered it
\* sets the pointer to NULL under the build, and the next hash_search
\* dereferences NULL.  An ERROR of the build leaves the pointer assigned.
get_event_triggers(event, command, inval) ==
    \E init \in {CacheIsNull(EventCommandTriggerCache)} :
    \E crash \in {init /\ inval /\ syscache_callbacks > 0} :
    \E b \in {IF init THEN BuildEventTriggerCache(pg_event_trigger, SessionReplicationRole)
              ELSE [status |-> "ok", entries |-> EventCommandTriggerCache.entries]} :
    \E err \in {IF crash THEN "SIGSEGV" ELSE IF b.status = "error" THEN "ERROR" ELSE "ok"} :
        /\ generation = "evtcache"
        /\ init => syscache_callbacks < MaxCallbacks
        /\ EventCommandTriggerCache' =
              IF crash THEN NoCache
              ELSE IF init
              THEN [null |-> FALSE, entries |-> b.entries,
                    complete |-> (b.status = "ok"), role |-> SessionReplicationRole]
              ELSE EventCommandTriggerCache
        /\ syscache_callbacks' =
              IF crash THEN 0
              ELSE IF init /\ err = "ok" THEN syscache_callbacks + 1
              ELSE syscache_callbacks
        /\ triggers' = IF err = "ok" THEN LookupTriggers(b.entries, event, command, init)
                       ELSE NoTriggers
        /\ SessionReplicationRole' =
              IF crash THEN "origin" ELSE SessionReplicationRole
        /\ resolved' = IF crash THEN NoLists ELSE resolved
        /\ lastCall' = Returned("get_event_triggers", err, FALSE)
        /\ UNCHANGED <<generation, pg_proc, pg_event_trigger, cmdvars>>

\* A callback that drops one entry of the table and keeps the rest.
InvalidateOneEntry ==
    /\ generation = "evtcache"
    /\ syscache_callbacks > 0
    /\ ~EventCommandTriggerCache.null
    /\ EventCommandTriggerCache' =
          IF EventCommandTriggerCache.entries = {} THEN NoCache
          ELSE [EventCommandTriggerCache EXCEPT
                   !.entries = @ \ {CHOOSE h \in @ : TRUE}]
    /\ lastCall' = Returned("InvalidateEvtTriggerCommandCacheCallback", "ok", FALSE)
    /\ UNCHANGED <<generation, pg_proc, SessionReplicationRole, pg_event_trigger,
                   syscache_callbacks, triggers, resolved, cmdvars>>

\* An invalidation message for pg_event_trigger is processed: every
\* registered callback runs; the first destroys the table.
InvalidateEvtTriggerCommandCacheCallback ==
    /\ generation = "evtcache"
    /\ syscache_callbacks > 0
    /\ ~EventCommandTriggerCache.null
    /\ EventCommandTriggerCache' = NoCache
    /\ resolved' = hash_destroy(resolved, EventCommandTriggerCache.entries)
    /\ lastCall' = Returned("InvalidateEvtTriggerCommandCacheCallback", "ok", FALSE)
    /\ UNCHANGED <<generation, pg_proc, SessionReplicationRole, pg_event_trigger,
                   syscache_callbacks, triggers, cmdvars>>

\* What a change of pg_event_trigger does to the cache of the backend that
\* made it: the invalidation it queues is processed at the end of the
\* command and reaches the callbacks that are registered.
CacheInvalidateHeapTuple ==
    /\ EventCommandTriggerCache' =
          IF syscache_callbacks > 0 THEN NoCache ELSE EventCommandTriggerCache
    /\ resolved' =
          IF syscache_callbacks > 0
          THEN hash_destroy(resolved, EventCommandTriggerCache.entries)
          ELSE resolved

\* The caller of get_event_triggers keeps the EventCommandTriggers it was
\* just returned for the rest of its command.
KeepEventTriggers ==
    /\ generation = "evtcache"
    /\ lastCall.op = "get_event_triggers"
    /\ lastCall.err = "ok"
    /\ resolved' =
          [held |-> TRUE,
           any_triggers |-> ListPointer(EventCommandTriggerCache.entries,
                                        EVENT_COMMAND_TRIGGER_KEY(E_ANY, triggers.event)),
           cmd_triggers |-> ListPointer(EventCommandTriggerCache.entries,
                                        EVENT_COMMAND_TRIGGER_KEY(triggers.command,
                                                                  triggers.event)),
           any_funcs |-> triggers.any_triggers,
           cmd_funcs |-> triggers.cmd_triggers]
    /\ lastCall' = Returned("KeepEventTriggers", "ok", FALSE)
    /\ UNCHANGED <<generation, pg_proc, SessionReplicationRole, pg_event_trigger,
                   EventCommandTriggerCache, syscache_callbacks, triggers, cmdvars>>

\* The four mutations of pg_event_trigger.  Their code (event_trigger.c)
\* is not part of the sources; they are modelled from the specification,
\* sections 4.1 and 4.2: a legal mutation changes the row and invalidates.
CreateEventTrigger(row) ==
    /\ generation = "evtcache"
    /\ Cardinality(pg_event_trigger) < MaxTriggers
    /\ \A r \in pg_event_trigger : r.evtname # row.evtname
    /\ pg_event_trigger' = pg_event_trigger \cup {row}
    /\ CacheInvalidateHeapTuple
    /\ lastCall' = Returned("CreateEventTrigger", "ok", FALSE)
    /\ UNCHANGED <<generation, pg_proc, SessionReplicationRole, syscache_callbacks,
                   triggers, cmdvars>>

DropEventTrigger(trigname) ==
    /\ generation = "evtcache"
    /\ \E r \in pg_event_trigger : r.evtname = trigname
    /\ pg_event_trigger' = {r \in pg_event_trigger : r.evtname # trigname}
    /\ CacheInvalidateHeapTuple
    /\ lastCall' = Returned("DropEventTrigger", "ok", FALSE)
    /\ UNCHANGED <<generation, pg_proc, SessionReplicationRole, syscache_callbacks,
                   triggers, cmdvars>>

AlterEventTrigger(trigname, tgenabled) ==
    /\ generation = "evtcache"
    /\ \E r \in pg_event_trigger : r.evtname = trigname /\ r.evtenabled # tgenabled
    /\ pg_event_trigger' =
          {IF r.evtname = trigname THEN [r EXCEPT !.evtenabled = tgenabled] ELSE r :
             r \in pg_event_trigger}
    /\ CacheInvalidateHeapTuple
    /\ lastCall' = Returned("AlterEventTrigger", "ok", FALSE)
    /\ UNCHANGED <<generation, pg_proc, SessionReplicationRole, syscache_callbacks,
                   triggers, cmdvars>>

RenameEventTrigger(trigname, newname) ==
    /\ generation = "evtcache"
    /\ \E r \in pg_event_trigger : r.evtname = trigname
    /\ \A r \in pg_event_trigger : r.evtname # newname
    /\ pg_event_trigger' =
          {IF r.evtname = trigname THEN [r EXCEPT !.evtname = newname] ELSE r :
             r \in pg_event_trigger}
    /\ CacheInvalidateHeapTuple
    /\ lastCall' = Returned("RenameEventTrigger", "ok", FALSE)
    /\ UNCHANGED <<generation, pg_proc, SessionReplicationRole, syscache_callbacks,
                   triggers, cmdvars>>

-----------------------------------------------------------------------------
(* Specifications                                                          *)

RegCommands == {"ALTER OPERATOR", "ANY", "VACUUM", "CLUSTER", "CREATE INDEX", "REINDEX"}
FireCommands == {"ALTER OPERATOR", "ANY"}
TrigEvents == {1}
TrigEventCommands == {1}

Init ==
    /\ generation \in {"cmdtrigger", "evtcache"}
    /\ pg_cmdtrigger = {}
    /\ pg_depend = {}
    /\ SessionReplicationRole = "origin"
    /\ oprowner = 10
    /\ cmd = NoContext
    /\ cmdNames = NoNames
    /\ fired = <<>>
    /\ CurrentMemoryContext = "MessageContext"
    /\ lastCall = Returned("none", "ok", FALSE)
    /\ pg_proc = {p.oid : p \in Procs}
    /\ AllocSetContexts = 0
    /\ pg_event_trigger = {}
    /\ EventCommandTriggerCache = NoCache
    /\ syscache_callbacks = 0
    /\ triggers = NoTriggers
    /\ resolved = NoLists

\* The registration API, called with statements over the given domains.
Registration(names, commands, timings, funcnames, enabled, callers) ==
    \/ \E stmt \in [trigname : names, command : commands, timing : timings,
                    funcname : funcnames], su \in callers :
            CreateCmdTrigger(stmt, su)
    \/ \E n \in names, missing_ok \in BOOLEAN, su \in callers :
            DropCmdTrigger(n, missing_ok, su)
    \/ \E n \in names, e \in enabled, su \in callers :
            AlterCmdTrigger(n, e, su)
    \/ \E n \in names, m \in names, su \in callers :
            RenameCmdTrigger(n, m, su)

\* ALTER OPERATOR ... OWNER TO with a context of the given kinds, by the
\* given callers, the procedures ending in the given ways.
Commands(contexts, callers, procresults) ==
    \E ctx \in contexts, o \in Owners, su \in callers :
    \E aclOk \in (IF su THEN {TRUE} ELSE BOOLEAN) :
    \E results \in [1..ListedProcs(ctx) -> procresults] :
        AlterOperatorOwner(ctx, o, su, aclOk, results)

\* The mutations of pg_event_trigger, with rows over the given domains.
EventRegistrationOver(names, events, tagsets, foids, types, enabled) ==
    \/ \E row \in [evtname : names, evtevent : events, evtfoid : foids,
                   evttype : types, evtenabled : {TRIGGER_FIRES_ON_ORIGIN},
                   evttags : tagsets] :
            CreateEventTrigger(row)
    \/ \E n \in names : DropEventTrigger(n)
    \/ \E n \in names, e \in enabled : AlterEventTrigger(n, e)
    \/ \E n \in names, m \in names : RenameEventTrigger(n, m)

\* The same for BEFORE triggers of the one event, under every name.
EventRegistration(tagsets, foids, enabled) ==
    EventRegistrationOver(TrigNames, TrigEvents, tagsets, foids, {EVTG_FIRED_BEFORE},
                          enabled)

\* Lookups of the cache and the invalidations that reach it.
LookupsOver(events, commands) ==
    \/ \E event \in events, command \in commands :
       \E inval \in (IF EventCommandTriggerCache.null /\ syscache_callbacks > 0
                     THEN BOOLEAN ELSE {FALSE}) :
            get_event_triggers(event, command, inval)
    \/ InvalidateEvtTriggerCommandCacheCallback

\* The same for the one event and the one command.
Lookups == LookupsOver(TrigEvents, TrigEventCommands)

\* The registration API alone: every command class, timing and function,
\* privileged and unprivileged callers.
NextReg ==
    Registration({<<1>>, <<2>>}, RegCommands, Timings, {"f_void", "f_bool", "f_missing"},
                 {TRIGGER_DISABLED}, BOOLEAN)

SpecReg == Init /\ [][NextReg]_vars

\* Registration by a superuser and the firing of ALTER OPERATOR; the
\* mutations and the lookups of the event trigger cache.
NextFire ==
    \/ Registration(TrigNames, FireCommands, Timings, {"f_void"}, {TRIGGER_DISABLED}, {TRUE})
    \/ Commands({"none", "own", "any"}, BOOLEAN, ProcResults)
    \/ EventRegistration({NullTags, TagArray(<<1>>), MalformedTags}, {101},
                         {TRIGGER_DISABLED})
    \/ Lookups

Spec == Init /\ [][NextFire]_vars

\* Triggers of one command, registered, dropped and renamed in any order,
\* and the lists built from them.
NextOrder ==
    \/ Registration(TrigNames, {"ALTER OPERATOR"},
                    {CMD_TRIGGER_FIRED_BEFORE, CMD_TRIGGER_FIRED_AFTER}, {"f_void"},
                    {TRIGGER_DISABLED}, {TRUE})
    \/ Commands({"own"}, {TRUE}, {"true", "error"})
    \/ EventRegistration({TagArray(<<1>>)}, {101}, {TRIGGER_DISABLED})
    \/ Lookups

SpecOrder == Init /\ [][NextOrder]_vars

\* The event trigger cache alone.
NextCache ==
    \/ EventRegistration({NullTags, TagArray(<<1>>), MalformedTags}, {101},
                         {TRIGGER_DISABLED})
    \/ Lookups

SpecCache == Init /\ [][NextCache]_vars

\* Triggers of every enabled state, in sessions of every replication role.
NextRole ==
    \/ Registration({<<1>>, <<2>>}, {"ALTER OPERATOR"},
                    {CMD_TRIGGER_FIRED_BEFORE, CMD_TRIGGER_FIRED_AFTER}, {"f_void"},
                    EnabledStates, {TRUE})
    \/ Commands({"none", "own", "any"}, BOOLEAN, ProcResults)
    \/ EventRegistration({TagArray(<<1>>)}, {101}, EnabledStates)
    \/ Lookups
    \/ \E role \in ReplicationRoles : SetSessionReplicationRole(role)

SpecRole == Init /\ [][NextRole]_vars

\* Utility commands with a context of the given kinds, the procedures ending
\* in the given ways; the command itself takes one place in the log.
Utilities(contexts, procresults) ==
    \E ctx \in contexts, tag \in UtilityTags :
    \E results \in [1..(ListedProcs(ctx) + 1) -> procresults] :
        ProcessUtility(ctx, tag, results)

\* The two passes around a command: ALTER OPERATOR ... OWNER TO with the
\* triggers of its class, utility commands with the triggers of "ANY".
NextDispatch ==
    \/ Registration({<<1>>, <<2>>}, FireCommands,
                    {CMD_TRIGGER_FIRED_BEFORE, CMD_TRIGGER_FIRED_AFTER},
                    {"f_void", "f_void_c", "f_void_c5"},
                    {TRIGGER_DISABLED}, {TRUE})
    \/ Commands({"none", "own"}, {TRUE}, ProcResults)
    \/ Utilities({"none", "any"}, ProcResults)

SpecDispatch == Init /\ [][NextDispatch]_vars

\* Triggers on two functions, registered and dropped, and the functions
\* dropped under them.
NextDepend ==
    \/ Registration({<<1>>, <<2>>}, {"ALTER OPERATOR"},
                    {CMD_TRIGGER_FIRED_BEFORE, CMD_TRIGGER_FIRED_AFTER},
                    {"f_void", "f_void_c"}, {TRIGGER_DISABLED}, {TRUE})
    \/ \E p \in Procs, cascade \in BOOLEAN : DropFunction(p.oid, cascade)

SpecDepend == Init /\ [][NextDepend]_vars

\* Event triggers of both types, for every command, for one command or
\* another, or with a tag array that names a command twice; lookups for
\* either command.
NextTags ==
    \/ EventRegistrationOver({<<1>>, <<2>>}, TrigEvents,
                             {NullTags, TagArray(<<1>>), TagArray(<<2>>), TagArray(<<1, 1>>)},
                             {101}, {EVTG_FIRED_BEFORE, EVTG_FIRED_INSTEAD_OF},
                             {TRIGGER_DISABLED})
    \/ LookupsOver(TrigEvents, {1, 2})

SpecTags == Init /\ [][NextTags]_vars

\* Event triggers for two events, for every command and for commands from
\* the range of a smallint, its lowest value among them; the lookups for them.
KeyEvents == {1, 2}
KeyCommands == {-32768, 1, 2}

NextKey ==
    \/ EventRegistrationOver({<<1>>, <<2>>}, KeyEvents,
                             {NullTags} \cup {TagArray(<<c>>) : c \in KeyCommands},
                             {101}, {EVTG_FIRED_BEFORE}, {TRIGGER_DISABLED})
    \/ LookupsOver(KeyEvents, KeyCommands)

SpecKey == Init /\ [][NextKey]_vars

\* Event triggers on two functions, for every command or for one or with a
\* tag array the build rejects; lookups, and commands that keep the lists a lookup returned while the definitions
\* change and the cache is invalidated and rebuilt.
NextSnapshot ==
    \/ EventRegistrationOver({<<1>>, <<2>>}, TrigEvents,
                             {NullTags, TagArray(<<1>>), MalformedTags},
                             {101, 102}, {EVTG_FIRED_BEFORE}, {TRIGGER_DISABLED})
    \/ LookupsOver(TrigEvents, TrigEventCommands)
    \/ KeepEventTriggers

SpecSnapshot == Init /\ [][NextSnapshot]_vars

\* Triggers of every timing on the command and on "ANY", firing on the
\* origin, on a replica or disabled, in sessions that are the origin or a
\* replica, and the contexts ALTER OPERATOR ... OWNER TO is given for them.
NextInit ==
    \/ Registration({<<1>>, <<2>>}, FireCommands, Timings, {"f_void", "f_void_c"},
                    {TRIGGER_DISABLED, TRIGGER_FIRES_ON_REPLICA}, {TRUE})
    \/ Commands({"own", "any"}, {TRUE}, {"true"})
    \/ \E role \in {"origin", SESSION_REPLICATION_ROLE_REPLICA} :
            SetSessionReplicationRole(role)

SpecInit == Init /\ [][NextInit]_vars

\* The registration API called by superusers and by other users, with
\* statements whose function exists or not.
PrivCommands == {"ALTER OPERATOR", "VACUUM"}
PrivTimings == {CMD_TRIGGER_FIRED_BEFORE, CMD_TRIGGER_FIRED_AFTER}
PrivFuncNames == {"f_void", "f_missing"}

NextPriv ==
    Registration({<<1>>, <<2>>}, PrivCommands, PrivTimings, PrivFuncNames,
                 EnabledStates, BOOLEAN)

SpecPriv == Init /\ [][NextPriv]_vars

-----------------------------------------------------------------------------
(* Properties                                                              *)

\* The names of the triggers whose procedures the log says were invoked in
\* the pass "when", in the order of their invocation.
RECURSIVE FiredIn(_, _)
FiredIn(log, when) ==
    IF log = <<>> THEN <<>>
    ELSE IF Head(log).when = when THEN <<Head(log).trig>> \o FiredIn(Tail(log), when)
    ELSE FiredIn(Tail(log), when)

\* The enabled states under which a trigger is to fire in a session of the
\* given replication role.
Admits(enabled, role) ==
    enabled \in (IF role = "replica" THEN {"A", "R"} ELSE {"A", "O"})

Range(seq) == {seq[i] : i \in 1..Len(seq)}

IsPrefix(s, t) == Len(s) <= Len(t) /\ \A i \in 1..Len(s) : s[i] = t[i]

\* The sequence of names is ascending; strictly so, if asked.
Ascending(names, strictly) ==
    \A i \in 1..(Len(names) - 1) :
        StrCmp(names[i], names[i + 1]) < (IF strictly THEN 0 ELSE 1)

\* C1: the lists ListCommandTriggers builds are in ascending order of
\* trigger name and hold the functions of the triggers so ordered, the
\* procedures a pass invokes are invoked in the order of its list, and the
\* lists BuildEventTriggerCache builds are in ascending order of trigger
\* name; all this whatever the order the triggers were registered in.
C1_FiringOrderIsNameOrder ==
    /\ lastCall.op = "AlterOperatorOwner"
       => /\ Ascending(cmdNames.before, TRUE)
          /\ Ascending(cmdNames.after, TRUE)
          /\ Len(cmd.before) = Len(cmdNames.before)
          /\ Len(cmd.after) = Len(cmdNames.after)
          /\ \A i \in 1..Len(cmd.before) :
                \E r \in pg_cmdtrigger : r.ctgname = cmdNames.before[i]
                                          /\ r.ctgfoid = cmd.before[i]
          /\ \A i \in 1..Len(cmd.after) :
                \E r \in pg_cmdtrigger : r.ctgname = cmdNames.after[i]
                                          /\ r.ctgfoid = cmd.after[i]
          /\ IsPrefix(FiredIn(fired, "BEFORE"), cmdNames.before)
          /\ IsPrefix(FiredIn(fired, "AFTER"), cmdNames.after)
    /\ \A h \in EventCommandTriggerCache.entries :
          Ascending(h.names, FALSE) /\ Len(h.funcs) = Len(h.names)
    /\ Ascending(triggers.any_names, FALSE)
    /\ Ascending(triggers.cmd_names, FALSE)

\* Two BEFORE procedures were invoked, in the order of the triggers' names,
\* and the trigger that fired first was registered after the other.
C1_Witness ==
    /\ lastCall.op = "AlterOperatorOwner"
    /\ Len(FiredIn(fired, "BEFORE")) = 2
    /\ \E r \in pg_cmdtrigger : \E q \in pg_cmdtrigger :
          /\ r.ctgname = fired[1].trig
          /\ q.ctgname = fired[2].trig
          /\ r.oid > q.oid

\* C2: in a BEFORE pass, once a BEFORE procedure has returned false no
\* later BEFORE procedure is invoked and the command itself is not executed.
C2_BeforeVetoStopsPass ==
    \A i \in 1..Len(fired) :
        (fired[i].when = "BEFORE" /\ fired[i].ret = "false")
        => \A j \in (i + 1)..Len(fired) : fired[j].when \notin {"BEFORE", "COMMAND"}

\* C3: when an enabled INSTEAD OF trigger exists for the class of a command
\* that was run with a context for that class, the pass has invoked each
\* INSTEAD OF procedure of the class exactly once and no BEFORE procedure,
\* and the command itself was skipped.
C3_InsteadOfReplacesCommand ==
    (lastCall.op = "AlterOperatorOwner" /\ lastCall.err = "ok" /\ cmd.tag # NULL)
    => LET instead == {r \in pg_cmdtrigger :
                          /\ r.ctgcommand = cmdNames.class
                          /\ r.ctgtype = CMD_TRIGGER_FIRED_INSTEAD
                          /\ Admits(r.ctgenabled, SessionReplicationRole)}
       IN instead # {}
          => /\ \A r \in instead :
                   Cardinality({i \in 1..Len(fired) : fired[i].trig = r.ctgname}) = 1
             /\ \A i \in 1..Len(fired) : fired[i].when \notin {"BEFORE", "COMMAND"}

\* C4: a lookup that succeeds returns the lists a build from the present
\* rows of pg_event_trigger gives: nothing older than the last mutation.
C4_LookupReflectsDefinitions ==
    (lastCall.op = "get_event_triggers" /\ lastCall.err = "ok")
    => triggers = LookupTriggers(
                     BuildEventTriggerCache(pg_event_trigger,
                                            EventCommandTriggerCache.role).entries,
                     triggers.event, triggers.command, triggers.built)

\* C5: a get_event_triggers that directly follows a successful one for the
\* same event and command returns the same two lists, does not build, and
\* leaves the cache as it is.
C5_LookupTwiceSameLists ==
    [][(/\ lastCall.op = "get_event_triggers" /\ lastCall.err = "ok"
        /\ lastCall'.op = "get_event_triggers"
        /\ triggers'.event = triggers.event
        /\ triggers'.command = triggers.command)
       => (/\ triggers'.any_triggers = triggers.any_triggers
           /\ triggers'.cmd_triggers = triggers.cmd_triggers
           /\ ~triggers'.built
           /\ EventCommandTriggerCache' = EventCommandTriggerCache
           /\ syscache_callbacks' = syscache_callbacks)]_vars

\* A lookup was answered from the cache, with a list of two functions.
C5_Witness ==
    /\ lastCall.op = "get_event_triggers"
    /\ lastCall.err = "ok"
    /\ ~triggers.built
    /\ Len(triggers.cmd_triggers) = 2

\* C6: the cache pointer is NULL or refers to a table whose build scanned
\* every row to the end, and no lookup ends the backend because the table
\* was destroyed under its build.
C6_PublishedCacheIsComplete ==
    /\ ~EventCommandTriggerCache.null => EventCommandTriggerCache.complete
    /\ ~(lastCall.op = "get_event_triggers" /\ lastCall.err = "SIGSEGV")

\* C7 as stated: the lists hold no trigger whose enabled state does not
\* admit the replication role the session has now.
C7_ListsAdmitCurrentRole ==
    /\ \A h \in EventCommandTriggerCache.entries : \A i \in 1..Len(h.enabled) :
          Admits(h.enabled[i], SessionReplicationRole)
    /\ (lastCall.op = "AlterOperatorOwner" /\ lastCall.err # "SIGSEGV")
       => \A n \in Range(cmdNames.before) \cup Range(cmdNames.after) :
             \A r \in RowsByName(pg_cmdtrigger, n) :
                Admits(r.ctgenabled, SessionReplicationRole)

\* C7, amended: the lists hold no trigger whose enabled state did not admit
\* the replication role the session had when the list was built, which for
\* a list of the cache is the role at the build of the cache and for the
\* lists of a command the role at the start of that command.
C7_ListsAdmitRoleAtBuild ==
    /\ \A h \in EventCommandTriggerCache.entries : \A i \in 1..Len(h.enabled) :
          Admits(h.enabled[i], EventCommandTriggerCache.role)
    /\ (lastCall.op = "AlterOperatorOwner" /\ lastCall.err # "SIGSEGV")
       => \A n \in Range(cmdNames.before) \cup Range(cmdNames.after) :
             \A r \in RowsByName(pg_cmdtrigger, n) :
                Admits(r.ctgenabled, SessionReplicationRole)

\* The cache was built in a replica session and lists a trigger that fires
\* on replica only, while a trigger that fires on origin only is left out.
C7_Witness ==
    /\ ~EventCommandTriggerCache.null
    /\ EventCommandTriggerCache.role = SESSION_REPLICATION_ROLE_REPLICA
    /\ \E h \in EventCommandTriggerCache.entries :
          /\ TRIGGER_FIRES_ON_REPLICA \in Range(h.enabled)
          /\ \E r \in pg_event_trigger :
                r.evtenabled = TRIGGER_FIRES_ON_ORIGIN /\ r.evtname \notin Range(h.names)

\* C8: no command class has an INSTEAD OF trigger together with a BEFORE or
\* an AFTER trigger, because the registration that would add the second one
\* fails with ConflictingPhase.
C8_NoConflictingPhase ==
    \A r \in pg_cmdtrigger : \A q \in pg_cmdtrigger :
        r.ctgcommand = q.ctgcommand
        => ~(r.ctgtype = CMD_TRIGGER_FIRED_INSTEAD
             /\ q.ctgtype \in {CMD_TRIGGER_FIRED_BEFORE, CMD_TRIGGER_FIRED_AFTER})

\* C9: a CreateCmdTrigger that fails, for whatever reason, leaves
\* pg_cmdtrigger and pg_depend exactly as they were before the call.
C9_FailedCreateWritesNothing ==
    [][(lastCall'.op = "CreateCmdTrigger" /\ lastCall'.err # "ok")
       => (pg_cmdtrigger' = pg_cmdtrigger /\ pg_depend' = pg_depend)]_vars

\* A CreateCmdTrigger has just failed on the return type of the function,
\* the last of its checks, while the catalog holds a trigger.
C9_Witness ==
    /\ lastCall.op = "CreateCmdTrigger"
    /\ lastCall.err = "InvalidObjectDefinition"
    /\ pg_cmdtrigger # {}

\* C10: every registered BEFORE or INSTEAD OF trigger has a function that
\* returns boolean, and every registered AFTER trigger one that returns void.
C10_ReturnContractByPhase ==
    \A r \in pg_cmdtrigger :
        IF r.ctgtype = CMD_TRIGGER_FIRED_AFTER
        THEN get_func_rettype(r.ctgfoid) = "void"
        ELSE get_func_rettype(r.ctgfoid) = "bool"


\* The statements and the names the registration API is called with under
\* SpecReg.
RegStatements ==
    [trigname : {<<1>>, <<2>>}, command : RegCommands, timing : Timings,
     funcname : {"f_void", "f_bool", "f_missing"}]
RegNames == {<<1>>, <<2>>}

\* The rows of a name within one command class.
RowsOfClass(rows, command, trigname) ==
    {r \in rows : r.ctgcommand = command /\ r.ctgname = trigname}

\* C11: a trigger name is unique within its command class: a registration
\* whose function resolves fails with the duplicate-name error exactly when
\* a trigger of the same command class already has the name, so a name used
\* by a trigger of another class only can still be registered.
C11_NameScopeIsCommandClass ==
    [][\A stmt \in RegStatements :
        (/\ lastCall'.op = "CreateCmdTrigger"
         /\ stmt.funcname # "f_missing"
         /\ CreateCmdTrigger(stmt, TRUE))
        => (lastCall'.err = "DuplicateObject"
            <=> RowsOfClass(pg_cmdtrigger, stmt.command, stmt.trigname) # {})]_vars

\* C12: the drop and the rename of a trigger that does not exist fail with
\* the not-found error and leave the catalog as it was, the rename whatever
\* the state of the new name; a drop told that a missing trigger is fine
\* returns without error and without change.
C12_MissingTriggerIsNotFound ==
    [][/\ \A n \in RegNames, m \in RegNames :
            (/\ lastCall'.op = "RenameCmdTrigger"
             /\ RowsByName(pg_cmdtrigger, n) = {}
             /\ RenameCmdTrigger(n, m, TRUE))
            => /\ lastCall'.err = "UndefinedObject"
               /\ pg_cmdtrigger' = pg_cmdtrigger
       /\ \A n \in RegNames, missing_ok \in BOOLEAN :
            (/\ lastCall'.op = "DropCmdTrigger"
             /\ RowsByName(pg_cmdtrigger, n) = {}
             /\ DropCmdTrigger(n, missing_ok, TRUE))
            => /\ lastCall'.err = (IF missing_ok THEN "ok" ELSE "UndefinedObject")
               /\ pg_cmdtrigger' = pg_cmdtrigger]_vars

UnsafeCommands == {"VACUUM", "CLUSTER", "CREATE INDEX", "REINDEX"}

\* C19: the registration of a BEFORE or AFTER trigger on VACUUM, CLUSTER,
\* CREATE INDEX or REINDEX is either rejected with an error that leaves the
\* catalog unchanged or accepted with a warning: none is accepted silently.
C19_UnsafeCommandsWarnOrFail ==
    [][lastCall'.op = "CreateCmdTrigger"
       => /\ lastCall'.err # "ok" => pg_cmdtrigger' = pg_cmdtrigger
          /\ \A r \in pg_cmdtrigger' \ pg_cmdtrigger :
                (/\ r.ctgcommand \in UnsafeCommands
                 /\ r.ctgtype \in {CMD_TRIGGER_FIRED_BEFORE, CMD_TRIGGER_FIRED_AFTER})
                => lastCall'.warn]_vars

\* The operations that run a command and its firing passes.
DispatchOps == {"AlterOperatorOwner", "ProcessUtility"}

\* C14: each firing pass works in a memory context of its own that is
\* released when the pass ends: a command whose procedures were invoked had
\* a "CommandTriggerContext" created for them, and once the command has
\* returned or failed none created for its passes is still allocated.
C14_PassContextReleased ==
    lastCall.op \in DispatchOps
    => /\ (\E k \in 1..Len(fired) : fired[k].when \in {"BEFORE", "AFTER"})
          => cmd.cmdmctx # NULL
       /\ AllocSetContexts = 0

\* C15: a command whose context lists no BEFORE and no AFTER procedure, or
\* that has no context, pays nothing for the triggers: no memory context is
\* created or switched to, the identity of the object is not computed and no
\* procedure is invoked; and a utility command has got a memory context for
\* its passes exactly when it has a context whose lists are not both empty.
C15_NoTriggerNoCost ==
    (lastCall.op \in DispatchOps /\ lastCall.err = "ok")
    => /\ (cmdNames.before = <<>> /\ cmdNames.after = <<>>)
          => /\ AllocSetContexts = 0
             /\ CurrentMemoryContext = "MessageContext"
             /\ cmd.cmdmctx = NULL /\ cmd.oldmctx = NULL
             /\ cmd.objectId = InvalidOid
             /\ cmd.objectname = NULL /\ cmd.schemaname = NULL
             /\ \A k \in 1..Len(fired) : fired[k].when = "COMMAND"
       /\ lastCall.op = "ProcessUtility"
          => (cmd.cmdmctx # NULL
              <=> (cmd # NoContext /\ (cmd.before # NIL \/ cmd.after # NIL)))

\* A utility command with a context whose lists are empty has run.
C15_Witness ==
    /\ lastCall.op = "ProcessUtility" /\ lastCall.err = "ok"
    /\ cmd # NoContext /\ cmd.before = NIL /\ cmd.after = NIL
    /\ pg_cmdtrigger # {}
    /\ Len(fired) = 1

\* C16: an AFTER pass that runs to its end has invoked every procedure of
\* cmd->after exactly once, in the order of the list, whatever the
\* procedures returned: false and NULL neither stop the pass nor fail the
\* command.
C16_AfterPassRunsAll ==
    (lastCall.op \in DispatchOps /\ lastCall.err = "ok")
    => FiredIn(fired, "AFTER") = cmdNames.after

\* An AFTER pass of two procedures, the first of which returned false.
C16_Witness ==
    /\ lastCall.op \in DispatchOps /\ lastCall.err = "ok"
    /\ Len(cmdNames.after) = 2
    /\ \E k \in 1..Len(fired) :
          /\ fired[k].when = "AFTER" /\ fired[k].ret = "false"
          /\ fired[k].trig = cmdNames.after[1]

\* C17: when a procedure raises an ERROR no later procedure is invoked, of
\* that pass or of a later one, the command fails with the procedure's error,
\* and after an ERROR in the BEFORE pass the command itself has not been
\* executed: the owner of the operator is what it was.
C17_ErrorStopsPassAndCommand ==
    [][lastCall'.op \in DispatchOps
       => \A k \in 1..Len(fired') :
            fired'[k].ret = "error"
            => /\ k = Len(fired')
               /\ lastCall'.err = "ProcedureError"
               /\ oprowner' = oprowner
               /\ fired'[k].when = "BEFORE"
                  => \A j \in 1..Len(fired') : fired'[j].when # "COMMAND"]_vars

\* The first of two BEFORE procedures raised an ERROR.
C17_Witness ==
    /\ lastCall.op \in DispatchOps /\ lastCall.err = "ProcedureError"
    /\ Len(cmdNames.before) = 2
    /\ Len(fired) = 1
    /\ fired[1].when = "BEFORE" /\ fired[1].ret = "error"

\* C18: the passes of a command come in the order BEFORE, the command
\* itself, AFTER: whenever an AFTER procedure is invoked the command's own
\* update has been done before it, and the BEFORE procedures listed for the
\* command have been invoked earlier in the same command.
C18_DispatchOrder ==
    \A k \in 1..Len(fired) :
        fired[k].when = "AFTER"
        => /\ \E j \in 1..(k - 1) : fired[j].when = "COMMAND"
           /\ FiredIn(SubSeq(fired, 1, k - 1), "BEFORE") = cmdNames.before

\* C20: every registered trigger has a dependency record from itself to its
\* function, there from the moment the row is, and the function exists:
\* dropping a function takes the triggers that call it with it.
C20_TriggerDependsOnFunction ==
    \A r \in pg_cmdtrigger :
        /\ [objid |-> r.oid, refobjid |-> r.ctgfoid] \in pg_depend
        /\ r.ctgfoid \in pg_proc

\* A function was dropped with the trigger that called it while a trigger
\* on another function stays.
C20_Witness ==
    /\ lastCall.op = "DropFunction" /\ lastCall.err = "ok"
    /\ 101 \notin pg_proc
    /\ Cardinality(pg_cmdtrigger) = 1
    /\ \A r \in pg_cmdtrigger : r.oid = 2 /\ r.ctgfoid = 102

\* C21: AlterCmdTrigger on an existing trigger changes the enabled state of
\* the row of that name and nothing else: the row's OID, name, command,
\* timing and function, every other row and the dependencies stay as they
\* were; on a missing trigger it fails with the not-found error and changes
\* nothing.
C21_AlterChangesOnlyEnabled ==
    [][\A n \in RegNames, e \in EnabledStates :
        (/\ lastCall'.op = "AlterCmdTrigger"
         /\ AlterCmdTrigger(n, e, TRUE))
        => /\ pg_depend' = pg_depend
           /\ IF \A r \in pg_cmdtrigger : r.ctgname # n
              THEN /\ lastCall'.err = "UndefinedObject"
                   /\ pg_cmdtrigger' = pg_cmdtrigger
              ELSE /\ lastCall'.err = "ok"
                   /\ Cardinality(pg_cmdtrigger') = Cardinality(pg_cmdtrigger)
                   /\ \A r \in pg_cmdtrigger :
                        IF r.ctgname = n
                        THEN [r EXCEPT !.ctgenabled = e] \in pg_cmdtrigger'
                        ELSE r \in pg_cmdtrigger']_vars

\* One of two triggers has got another enabled state, the other has kept
\* the one it was created with.
C21_Witness ==
    /\ lastCall.op = "AlterCmdTrigger" /\ lastCall.err = "ok"
    /\ \E r, q \in pg_cmdtrigger :
          /\ r.ctgname # q.ctgname
          /\ r.ctgenabled = TRIGGER_FIRES_ON_REPLICA
          /\ q.ctgenabled = TRIGGER_FIRES_ON_ORIGIN

\* C22: a cache entry keeps the procedures of different phases apart: no
\* function list of the cache, and so no list a lookup returns, holds the
\* procedures of triggers of two different types.
C22_ListsAreOfOnePhase ==
    \A h \in EventCommandTriggerCache.entries :
        \A i, j \in 1..Len(h.types) : h.types[i] = h.types[j]

\* The rows in ascending order of their names.
RECURSIVE RowsInNameOrder(_)
RowsInNameOrder(rows) ==
    IF rows = {} THEN <<>>
    ELSE LET last == CHOOSE r \in rows : \A q \in rows : StrCmp(q.evtname, r.evtname) <= 0
         IN Append(RowsInNameOrder(rows \ {last}), last)

\* The functions of the rows, in the order of the rows' names.
FunctionsOf(rows) ==
    LET seq == RowsInNameOrder(rows) IN [i \in 1..Len(seq) |-> seq[i].evtfoid]

\* The rows for an event that are to fire under the session's role.
ActiveFor(event) ==
    {r \in pg_event_trigger :
        r.evtevent = event /\ Admits(r.evtenabled, SessionReplicationRole)}

\* C23: a lookup for event e and command c that succeeds returns as
\* cmd_triggers the functions, in name order, of exactly the active triggers
\* for e whose tag array holds c, and as any_triggers those of exactly the
\* active triggers for e that have no tag array; either is NIL when there is
\* no such trigger.
C23_LookupListsAreExact ==
    (lastCall.op = "get_event_triggers" /\ lastCall.err = "ok")
    => /\ triggers.cmd_triggers =
            FunctionsOf({r \in ActiveFor(triggers.event) :
                            /\ ~r.evttags.isnull
                            /\ \E k \in 1..Len(r.evttags.tags) :
                                  r.evttags.tags[k] = triggers.command})
       /\ triggers.any_triggers =
            FunctionsOf({r \in ActiveFor(triggers.event) : r.evttags.isnull})

\* C29: in a built cache the function of one trigger is at most once in the
\* list of a key, whatever tag array its row carries.
C29_OneTriggerOncePerKey ==
    \A h \in EventCommandTriggerCache.entries :
        \A i, j \in 1..Len(h.names) : h.names[i] = h.names[j] => i = j

\* C24: an invalidation discards the whole cache: after the callback has
\* run the cache pointer is NULL and no entry is left for any key, and the
\* lookup that finds the pointer NULL and succeeds has built every entry
\* from a scan of the rows as they then are.
C24_InvalidationDiscardsAll ==
    [][/\ lastCall'.op = "InvalidateEvtTriggerCommandCacheCallback"
          => /\ EventCommandTriggerCache'.null
             /\ EventCommandTriggerCache'.entries = {}
       /\ (/\ lastCall'.op = "get_event_triggers" /\ lastCall'.err = "ok"
           /\ EventCommandTriggerCache.null)
          => /\ triggers'.built
             /\ ~EventCommandTriggerCache'.null
             /\ EventCommandTriggerCache'.entries =
                   BuildEventTriggerCache(pg_event_trigger', SessionReplicationRole').entries]_vars

\* A lookup has built the cache anew, for the second time, from two rows.
C24_Witness ==
    /\ lastCall.op = "get_event_triggers" /\ lastCall.err = "ok"
    /\ triggers.built
    /\ syscache_callbacks = 2
    /\ Len(triggers.cmd_triggers) = 2

\* C28: the invalidation callback is registered at most once in a backend,
\* however often the cache is built.
C28_CallbackRegisteredOnce ==
    syscache_callbacks <= 1

C26_ConventionIsTheSignature ==
    lastCall.op \in DispatchOps
    => \A k \in 1..Len(fired) :
          fired[k].when # "COMMAND"
          => \A p \in Procs : p.oid = fired[k].proc => fired[k].nargs = p.pronargs

\* C27: when a command whose passes have run returns, the current memory
\* context is the one that was current before its passes, and no command
\* ends the backend by using a NULL memory context.
C27_MemoryContextRestored ==
    lastCall.op \in DispatchOps
    => /\ lastCall.err # "SIGSEGV"
       /\ CurrentMemoryContext = "MessageContext"

\* Commands from the range of a smallint and events from the range of an
\* unsigned 16 bit value, the ends of both ranges among them.
SomeCommands == {-32768, -1, 0, 1, 2, 32767}
SomeEvents == {0, 1, 2, 65535}

\* C30: the key is injective over the commands a tag array can hold, the
\* wildcard among them, and the events: two different pairs never have one
\* key, so every function in the list of an entry was added for the command
\* and the event of that entry (the assertion of add_funcall_to_command_event
\* holds) and no two pairs share a list.
C30_KeyIsInjective ==
    /\ \A c1 \in SomeCommands \cup {E_ANY}, c2 \in SomeCommands \cup {E_ANY} :
       \A e1 \in SomeEvents, e2 \in SomeEvents :
            EVENT_COMMAND_TRIGGER_KEY(c1, e1) = EVENT_COMMAND_TRIGGER_KEY(c2, e2)
            => c1 = c2 /\ e1 = e2
    /\ \A h \in EventCommandTriggerCache.entries :
          \A i \in 1..Len(h.pairs) : h.pairs[i] = <<h.command, h.event>>
    /\ \A h1 \in EventCommandTriggerCache.entries, h2 \in EventCommandTriggerCache.entries :
          (h1.command = h2.command /\ h1.event = h2.event) => h1 = h2

\* The cache holds an entry for command 1 and event 2 and another for
\* command 2 and event 1.
C30_Witness ==
    /\ lastCall.op = "get_event_triggers" /\ lastCall.err = "ok"
    /\ \E h1 \in EventCommandTriggerCache.entries :
          h1.command = 1 /\ h1.event = 2
    /\ \E h2 \in EventCommandTriggerCache.entries :
          h2.command = 2 /\ h2.event = 1

\* C31: the lists a command keeps from one get_event_triggers call are a
\* stable snapshot: whatever happens afterwards (later lookups, changes of
\* the definitions, the invalidation of the cache and its rebuild), a reader
\* of the kept pointers finds the functions the call returned, in the order
\* it returned them.
C31_ResolvedListsAreStable ==
    resolved.held =>
        /\ ListCells(resolved.any_triggers) = resolved.any_funcs
        /\ ListCells(resolved.cmd_triggers) = resolved.cmd_funcs

\* Lists are kept, the cache was invalidated and rebuilt since, and the
\* rebuilt table holds other lists under the same keys.
C31_Witness ==
    /\ resolved.held
    /\ resolved.any_funcs # NIL
    /\ resolved.cmd_funcs # NIL
    /\ ~resolved.any_triggers.live
    /\ ~resolved.cmd_triggers.live
    /\ lastCall.op = "get_event_triggers"
    /\ lastCall.err = "ok"
    /\ triggers.built
    /\ triggers.any_triggers # resolved.any_funcs
    /\ triggers.cmd_triggers # resolved.cmd_funcs
    /\ HashFind(EventCommandTriggerCache.entries, resolved.any_triggers.key, "funcs")
          # resolved.any_funcs
\* C32: whatever calls of CreateCmdTrigger, RenameCmdTrigger, AlterCmdTrigger
\* and RemoveCmdTriggerById were made, successful or not, no two rows of
\* pg_cmdtrigger have the same command and the same name; and a rename that
\* fails (new name taken, old name missing, caller not privileged) leaves
\* every row as it was.
C32_NamesStayUnique ==
    /\ [](\A r \in pg_cmdtrigger, q \in pg_cmdtrigger :
            (r.ctgcommand = q.ctgcommand /\ r.ctgname = q.ctgname) => r = q)
    /\ [][(lastCall'.op = "RenameCmdTrigger" /\ lastCall'.err # "ok")
            => pg_cmdtrigger' = pg_cmdtrigger]_vars

\* A rename has just failed because its new name is taken, in a catalog of
\* two triggers of one command.
C32_Witness ==
    /\ lastCall.op = "RenameCmdTrigger"
    /\ lastCall.err = "DuplicateObject"
    /\ Cardinality(pg_cmdtrigger) = 2
    /\ \A r \in pg_cmdtrigger, q \in pg_cmdtrigger : r.ctgcommand = q.ctgcommand
\* C33: whenever a procedure is invoked in the AFTER pass of ALTER OPERATOR
\* ... OWNER TO, the context names the operator: cmd->objectId is its OID,
\* cmd->objectname and cmd->schemaname are its name and its schema, and the
\* procedure gets them as arguments that are not null; also when the new
\* owner is the owner the operator already has.
C33_AfterPassKnowsTheObject ==
    lastCall.op = "AlterOperatorOwner"
    => \A k \in 1..Len(fired) :
          fired[k].when = "AFTER"
          => /\ cmd.objectId = TheOperator.oid
             /\ cmd.objectname = TheOperator.oprname
             /\ cmd.schemaname = TheOperator.oprnamespace
             /\ fired[k].argnull[3] = FALSE
             /\ fired[k].argnull[4] = FALSE
             /\ fired[k].argnull[5] = FALSE
\* The rows of pg_cmdtrigger in ascending order of their names.
RECURSIVE CmdRowsInNameOrder(_)
CmdRowsInNameOrder(rows) ==
    IF rows = {} THEN <<>>
    ELSE LET last == CHOOSE r \in rows : \A q \in rows : StrCmp(q.ctgname, r.ctgname) <= 0
         IN Append(CmdRowsInNameOrder(rows \ {last}), last)

\* The procedures of the triggers of a class and a timing that are to fire
\* under the session's role, in the order of the triggers' names.
ActiveProcedures(class, timing) ==
    LET seq == CmdRowsInNameOrder(
                   {r \in pg_cmdtrigger :
                       /\ r.ctgcommand = class
                       /\ r.ctgtype = timing
                       /\ Admits(r.ctgenabled, SessionReplicationRole)})
    IN [i \in 1..Len(seq) |-> seq[i].ctgfoid]

====
